---- MODULE Spec2Model ----
(***************************************************************************)
(* Model of the eviction cache of cache-service/main.py: class             *)
(* CacheManager (policies LRU, FIFO, LFU, optional TTL, statistics).       *)
(* The CacheManager object is the record cm; every method is an operator   *)
(* from an object state to the state(s) the method leaves behind, an       *)
(* uncaught Python exception included (field err of the result).           *)
(***************************************************************************)
EXTENDS Integers, Sequences, FiniteSets, TLC

\* ---- bounds of the model ------------------------------------------------
MaxCap == 2
MaxTTL == 1
MaxTime == 2
MaxOps == 4

Keys == {"a", "b", "c"}
Values == {"v1", "v2"}
Policies == {"LRU", "FIFO", "LFU"}
None == "None"

\* cm: the CacheManager object; now: the clock; last, hist: the call just made
\* and the history of the calls; inflight: the /query requests being served
\* and the request the event loop is running.
VARIABLES cm, now, last, hist, inflight
vars == <<cm, now, last, hist, inflight>>

MaxReqs == 2
Reqs == 1..MaxReqs

\* No request has arrived and the event loop is idle (loop = 0).
NoRequests ==
    [pc |-> [i \in Reqs |-> "idle"], loop |-> 0,
     question |-> [i \in Reqs |-> None], data |-> [i \in Reqs |-> None]]

\* ---- Python dict / deque / OrderedDict primitives ------------------------
Empty == [x \in {} |-> None]
Del(f, k) == [x \in DOMAIN f \ {k} |-> f[x]]
Set(f, k, v) == [x \in DOMAIN f \cup {k} |-> IF x = k THEN v ELSE f[x]]
Range(q) == {q[i] : i \in 1..Len(q)}
Without(q, k) == SelectSeq(q, LAMBDA x : x # k)
IndexOf(q, k) == CHOOSE i \in 1..Len(q) : q[i] = k /\ \A j \in 1..(i - 1) : q[j] # k
RemoveFirst(q, k) ==
    IF k \notin Range(q) THEN q
    ELSE LET i == IndexOf(q, k)
         IN  SubSeq(q, 1, i - 1) \o SubSeq(q, i + 1, Len(q))

\* ---- CacheManager.__init__ ------------------------------------------------
NewCacheManager(size, policy, ttl) ==
    [size |-> size, policy |-> policy, ttl |-> ttl,
     stats |-> [hits |-> 0, misses |-> 0, evictions |-> 0, expirations |-> 0],
     timestamps |-> Empty,
     cache |-> Empty,
     cache_order |-> <<>>,
     insertion_order |-> <<>>,
     frequencies |-> Empty,
     freq_groups |-> Empty,
     min_freq |-> 0]

\* ---- CacheManager._is_expired ---------------------------------------------
_is_expired_ge(s, key, t) ==
    IF s.ttl = 0 THEN FALSE
    ELSE IF key \notin DOMAIN s.timestamps THEN TRUE
    ELSE (t - s.timestamps[key]) >= s.ttl

_is_expired(s, key, t) ==
    IF s.ttl = 0 THEN FALSE
    ELSE IF key \notin DOMAIN s.timestamps THEN TRUE
    ELSE (t - s.timestamps[key]) > s.ttl

\* del self.cache[key]: under LRU the cache is an OrderedDict, whose key
\* order is cache_order.
del_cache(s, key) ==
    [s EXCEPT !.cache = Del(@, key),
              !.cache_order = IF s.policy = "LRU" THEN Without(@, key) ELSE @]

\* self.cache[key] = value: a new key of an OrderedDict goes to the end, an
\* existing one keeps its place.
set_cache(s, key, value) ==
    [s EXCEPT !.cache = Set(@, key, value),
              !.cache_order = IF s.policy = "LRU" /\ key \notin DOMAIN s.cache
                              THEN Append(@, key) ELSE @]

\* OrderedDict.move_to_end(key)
move_to_end_noop(s, key) == s

move_to_end(s, key) == [s EXCEPT !.cache_order = Append(Without(@, key), key)]

\* ---- CacheManager._remove_expired -----------------------------------------
_remove_expired_policy(s, key) ==
    IF s.policy = "FIFO" THEN
        [s EXCEPT !.insertion_order = RemoveFirst(@, key)]
    ELSE IF s.policy = "LFU" /\ key \in DOMAIN s.frequencies THEN
        LET freq == s.frequencies[key]
            g1 == IF freq \in DOMAIN s.freq_groups /\ key \in s.freq_groups[freq]
                  THEN LET g == s.freq_groups[freq] \ {key}
                       IN  IF g = {} THEN Del(s.freq_groups, freq)
                           ELSE Set(s.freq_groups, freq, g)
                  ELSE s.freq_groups
        IN  [s EXCEPT !.freq_groups = g1, !.frequencies = Del(@, key)]
    ELSE s

_remove_expired_as_eviction(s, key) ==
    LET s1 == del_cache(s, key)
        s2 == [s1 EXCEPT !.timestamps = Del(@, key)]
        s3 == _remove_expired_policy(s2, key)
    IN  [s3 EXCEPT !.stats.evictions = @ + 1]

_remove_expired_miss(s, key) ==
    LET s1 == del_cache(s, key)
        s2 == [s1 EXCEPT !.timestamps = Del(@, key)]
        s3 == _remove_expired_policy(s2, key)
    IN  [s3 EXCEPT !.stats.expirations = @ + 1, !.stats.misses = @ + 1]

_remove_expired(s, key) ==
    LET s1 == del_cache(s, key)
        s2 == [s1 EXCEPT !.timestamps = Del(@, key)]
        s3 == _remove_expired_policy(s2, key)
    IN  [s3 EXCEPT !.stats.expirations = @ + 1]

\* ---- CacheManager._increment_frequency ------------------------------------
\* frequencies[key], freq_groups[old_freq] and set.remove(key) each raise
\* KeyError when the key is missing; nothing has been written at that point.
_increment_frequency(s, key) ==
    IF key \notin DOMAIN s.frequencies THEN [st |-> s, err |-> TRUE]
    ELSE
      LET old_freq == s.frequencies[key]
          new_freq == old_freq + 1
      IN  IF old_freq \notin DOMAIN s.freq_groups THEN [st |-> s, err |-> TRUE]
          ELSE IF key \notin s.freq_groups[old_freq] THEN [st |-> s, err |-> TRUE]
          ELSE
            LET g1 == Set(s.freq_groups, old_freq, s.freq_groups[old_freq] \ {key})
                mf == IF g1[old_freq] = {} /\ old_freq = s.min_freq
                      THEN s.min_freq + 1 ELSE s.min_freq
                g2 == IF new_freq \notin DOMAIN g1 THEN Set(g1, new_freq, {}) ELSE g1
                g3 == Set(g2, new_freq, g2[new_freq] \cup {key})
            IN  [st |-> [s EXCEPT !.min_freq = mf,
                                  !.frequencies = Set(@, key, new_freq),
                                  !.freq_groups = g3],
                 err |-> FALSE]

\* ---- CacheManager._evict ----------------------------------------------------
\* The outcomes of one call: evictions is counted first; then the policy's
\* victim is removed.  Under LFU the victim is next(iter(bucket)), any member
\* of the set (set iteration order is unspecified), and the bucket is left as
\* it was; a missing bucket, an empty bucket or a victim absent from
\* frequencies or cache raises before anything else is written.  The test
\* "if not self.freq_groups[self.min_freq]" follows a successful next(), so
\* its bucket is never empty and its del never runs.
_evict_timestamps_kept(s, evicted_key) == s

_evict_timestamps(s, evicted_key) ==
    [s EXCEPT !.timestamps = Del(@, evicted_key)]

_evict_lru_victim(s) == s.cache_order[1]

_evict_fifo_victim(s) == s.insertion_order[1]

_evict(s) ==
    LET s0 == [s EXCEPT !.stats.evictions = @ + 1]
        raised == {[st |-> s0, err |-> TRUE, evicted |-> {}]}
    IN
    IF s.policy = "LRU" THEN
        IF s0.cache_order = <<>> THEN raised
        ELSE LET evicted_key == _evict_lru_victim(s0)
             IN  {[st |-> _evict_timestamps(del_cache(s0, evicted_key), evicted_key),
                   err |-> FALSE, evicted |-> {evicted_key}]}
    ELSE IF s.policy = "FIFO" THEN
        IF s0.insertion_order = <<>> THEN raised
        ELSE LET evicted_key == _evict_fifo_victim(s0)
                 s1 == [s0 EXCEPT !.insertion_order = Tail(@)]
             IN  IF evicted_key \notin DOMAIN s1.cache
                 THEN {[st |-> s1, err |-> TRUE, evicted |-> {}]}
                 ELSE {[st |-> _evict_timestamps(del_cache(s1, evicted_key), evicted_key),
                        err |-> FALSE, evicted |-> {evicted_key}]}
    ELSE
        IF s0.min_freq \notin DOMAIN s0.freq_groups THEN raised
        ELSE IF s0.freq_groups[s0.min_freq] = {} THEN raised
        ELSE
          { IF evicted_key \notin DOMAIN s0.frequencies THEN
                [st |-> s0, err |-> TRUE, evicted |-> {}]
            ELSE LET s1 == [s0 EXCEPT !.frequencies = Del(@, evicted_key)]
                 IN  IF evicted_key \notin DOMAIN s1.cache THEN
                         [st |-> s1, err |-> TRUE, evicted |-> {}]
                     ELSE [st |-> _evict_timestamps(del_cache(s1, evicted_key), evicted_key),
                           err |-> FALSE, evicted |-> {evicted_key}]
            : evicted_key \in s0.freq_groups[s0.min_freq] }

\* ---- CacheManager.get -------------------------------------------------------
\* Policy bookkeeping of a hit (LRU: move_to_end, LFU: _increment_frequency,
\* FIFO: nothing).
_on_hit_fifo_moves(s, key) ==
    IF s.policy = "LRU" THEN [st |-> move_to_end(s, key), err |-> FALSE]
    ELSE IF s.policy = "LFU" THEN _increment_frequency(s, key)
    ELSE [st |-> [s EXCEPT !.insertion_order = Append(Without(@, key), key)],
          err |-> FALSE]

_on_hit(s, key) ==
    IF s.policy = "LRU" THEN [st |-> move_to_end(s, key), err |-> FALSE]
    ELSE IF s.policy = "LFU" THEN _increment_frequency(s, key)
    ELSE [st |-> s, err |-> FALSE]

\* Policy bookkeeping of an overwrite in put (lines 105-108).
_on_update(s, key) ==
    IF s.policy = "LRU" THEN [st |-> move_to_end(s, key), err |-> FALSE]
    ELSE IF s.policy = "LFU" THEN _increment_frequency(s, key)
    ELSE [st |-> s, err |-> FALSE]

\* The result of get(key) at clock t: the state left, whether an exception
\* escaped, the value returned (None for absent) and the keys removed by
\* expiration.
get(s, key, t) ==
    IF key \notin DOMAIN s.cache THEN
        [st |-> [s EXCEPT !.stats.misses = @ + 1],
         err |-> FALSE, ret |-> None, expired |-> {}]
    ELSE IF _is_expired(s, key, t) THEN
        [st |-> [_remove_expired(s, key) EXCEPT !.stats.misses = @ + 1],
         err |-> FALSE, ret |-> None, expired |-> {key}]
    ELSE
        LET s1 == [s EXCEPT !.stats.hits = @ + 1]
            r == _on_hit(s1, key)
        IN  [st |-> r.st, err |-> r.err,
             ret |-> IF r.err THEN None ELSE r.st.cache[key],
             expired |-> {}]

\* ---- CacheManager.put -------------------------------------------------------
NeedsEvict_gt(s) == Cardinality(DOMAIN s.cache) > s.size

NeedsEvict(s) == Cardinality(DOMAIN s.cache) >= s.size

_insert_policy_keeps_min(s, key) ==
    IF s.policy = "FIFO" THEN
        [s EXCEPT !.insertion_order = Append(@, key)]
    ELSE IF s.policy = "LFU" THEN
        LET g1 == IF 1 \notin DOMAIN s.freq_groups
                  THEN Set(s.freq_groups, 1, {}) ELSE s.freq_groups
        IN  [s EXCEPT !.frequencies = Set(@, key, 1),
                      !.freq_groups = Set(g1, 1, g1[1] \cup {key})]
    ELSE s

\* Policy bookkeeping of a fresh insertion (lines 118-125).
_insert_policy(s, key) ==
    IF s.policy = "FIFO" THEN
        [s EXCEPT !.insertion_order = Append(@, key)]
    ELSE IF s.policy = "LFU" THEN
        LET g1 == IF 1 \notin DOMAIN s.freq_groups
                  THEN Set(s.freq_groups, 1, {}) ELSE s.freq_groups
        IN  [s EXCEPT !.frequencies = Set(@, key, 1),
                      !.freq_groups = Set(g1, 1, g1[1] \cup {key}),
                      !.min_freq = 1]
    ELSE s

\* The outcomes of put(key, value) at clock t.
put(s, key, value, t) ==
    LET purge == key \in DOMAIN s.cache /\ _is_expired(s, key, t)
        s1 == IF purge THEN _remove_expired(s, key) ELSE s
        expired == IF purge THEN {key} ELSE {}
    IN
    IF key \in DOMAIN s1.cache THEN
        LET s2 == [set_cache(s1, key, value) EXCEPT !.timestamps = Set(@, key, t)]
            r == _on_update(s2, key)
        IN  {[st |-> r.st, err |-> r.err, expired |-> expired, evicted |-> {},
              fresh |-> FALSE]}
    ELSE
        LET evs == IF NeedsEvict(s1) THEN _evict(s1)
                   ELSE {[st |-> s1, err |-> FALSE, evicted |-> {}]}
        IN  { IF e.err THEN
                  [st |-> e.st, err |-> TRUE, expired |-> expired,
                   evicted |-> e.evicted, fresh |-> FALSE]
              ELSE
                  [st |-> _insert_policy(
                             [set_cache(e.st, key, value)
                                 EXCEPT !.timestamps = Set(@, key, t)], key),
                   err |-> FALSE, expired |-> expired, evicted |-> e.evicted,
                   fresh |-> TRUE]
              : e \in evs }

\* ---- CacheManager.get_stats -------------------------------------------------
\* hit_rate is round(hits / total * 100, 2); it is kept here in hundredths of
\* a percent, rounded half to even as Python's round does.
RoundDiv(n, d) ==
    LET q == n \div d
        r2 == 2 * (n % d)
    IN  IF r2 > d \/ (r2 = d /\ q % 2 = 1) THEN q + 1 ELSE q

get_stats_ratio(s) ==
    LET total_requests == s.stats.hits + s.stats.misses
        hit_rate == IF total_requests > 0
                    THEN RoundDiv(s.stats.hits * 100, total_requests) ELSE 0
    IN  [size |-> Cardinality(DOMAIN s.cache), capacity |-> s.size,
         policy |-> s.policy, ttl |-> s.ttl,
         hits |-> s.stats.hits, misses |-> s.stats.misses,
         evictions |-> s.stats.evictions, expirations |-> s.stats.expirations,
         hit_rate |-> hit_rate]

get_stats(s) ==
    LET total_requests == s.stats.hits + s.stats.misses
        hit_rate == IF total_requests > 0
                    THEN RoundDiv(s.stats.hits * 10000, total_requests) ELSE 0
    IN  [size |-> Cardinality(DOMAIN s.cache), capacity |-> s.size,
         policy |-> s.policy, ttl |-> s.ttl,
         hits |-> s.stats.hits, misses |-> s.stats.misses,
         evictions |-> s.stats.evictions, expirations |-> s.stats.expirations,
         hit_rate |-> hit_rate]

\* ---- the calls made on the one cache_manager ---------------------------------
\* last records the call just made (its arguments, its result, the object
\* before it); hist counts the calls and the removals and keeps the live keys
\* in the order of their last touch (a get hit, an insertion, an overwrite;
\* kept under LRU) and in the order of their insertion (kept under FIFO), and
\* for each live key the value and the clock of the last put that returned.
Restrict(f, S) == [x \in DOMAIN f \cap S |-> f[x]]

Live(q, S) == SelectSeq(q, LAMBDA x : x \in S)

Touched(q, key) == Append(Without(q, key), key)

NoCall(op, s) ==
    [op |-> op, key |-> None, value |-> None, ret |-> None, err |-> FALSE,
     evicted |-> {}, expired |-> {}, fresh |-> FALSE, pre |-> s, t |-> 0,
     ptouch |-> <<>>, pins |-> <<>>, pput |-> Empty]

Init ==
    /\ \E size \in 1..MaxCap, policy \in Policies, ttl \in {0, MaxTTL} :
          cm = NewCacheManager(size, policy, ttl)
    /\ now = 0
    /\ last = NoCall("init", cm)
    /\ hist = [ops |-> 0, gets |-> 0, rem_evict |-> 0, rem_expire |-> 0,
               touch |-> <<>>, ins |-> <<>>, lastput |-> Empty]
    /\ inflight = NoRequests

Get ==
    /\ hist.ops < MaxOps
    /\ \E key \in Keys :
          LET r == get(cm, key, now)
              n == hist.ops + 1
              live == DOMAIN r.st.cache
          IN  /\ cm' = r.st
              /\ last' = [op |-> "get", key |-> key, value |-> None, ret |-> r.ret,
                          err |-> r.err, evicted |-> {}, expired |-> r.expired,
                          fresh |-> FALSE, pre |-> cm, t |-> now,
                          ptouch |-> hist.touch, pins |-> hist.ins, pput |-> hist.lastput]
              /\ hist' = [hist EXCEPT
                            !.ops = n,
                            !.gets = @ + 1,
                            !.rem_expire = @ + Cardinality(r.expired),
                            !.touch = IF cm.policy # "LRU" THEN @
                                      ELSE Live(IF r.ret # None THEN Touched(@, key) ELSE @, live),
                            !.ins = Live(@, live),
                            !.lastput = Restrict(@, live)]
    /\ UNCHANGED <<now, inflight>>

Put ==
    /\ hist.ops < MaxOps
    /\ \E key \in Keys, value \in Values :
       \E r \in put(cm, key, value, now) :
          LET n == hist.ops + 1
              live == DOMAIN r.st.cache
          IN  /\ cm' = r.st
              /\ last' = [op |-> "put", key |-> key, value |-> value, ret |-> None,
                          err |-> r.err, evicted |-> r.evicted, expired |-> r.expired,
                          fresh |-> r.fresh, pre |-> cm, t |-> now,
                          ptouch |-> hist.touch, pins |-> hist.ins, pput |-> hist.lastput]
              /\ hist' = [hist EXCEPT
                            !.ops = n,
                            !.rem_evict = @ + Cardinality(r.evicted),
                            !.rem_expire = @ + Cardinality(r.expired),
                            !.touch = IF cm.policy # "LRU" THEN @
                                      ELSE Live(IF r.err THEN @ ELSE Touched(@, key), live),
                            !.ins = IF cm.policy # "FIFO" THEN @
                                    ELSE Live(IF r.fresh THEN Touched(@, key) ELSE @, live),
                            !.lastput = Restrict(IF r.err THEN @
                                                 ELSE Set(@, key, [value |-> value, t |-> now]),
                                                 live)]
    /\ UNCHANGED <<now, inflight>>

GetStats ==
    /\ last.op # "get_stats"
    /\ last' = [NoCall("get_stats", cm) EXCEPT !.ret = get_stats(cm), !.t = now]
    /\ UNCHANGED <<cm, now, hist, inflight>>

\* time.time() moves on between calls.
Tick ==
    /\ now < MaxTime
    /\ now' = now + 1
    /\ last' = NoCall("tick", cm)
    /\ UNCHANGED <<cm, hist, inflight>>

Next == Get \/ Put \/ GetStats \/ Tick

Spec == Init /\ [][Next]_vars

\* ---- properties ---------------------------------------------------------------
Size(s) == Cardinality(DOMAIN s.cache)

\* A put of a key that was not in the cache, made when the cache was full.
PutNewWhenFull ==
    /\ last.op = "put"
    /\ last.key \notin DOMAIN last.pre.cache
    /\ Size(last.pre) = last.pre.size

\* C1: in every state, and so after every put of any sequence of get and put
\* calls, the number of entries of the cache is at most its capacity.
C1_CapacityInvariant == Size(cm) <= cm.size

\* C1 witness: a put has just evicted to make room and left the cache full.
C1_Witness ==
    /\ last.op = "put" /\ ~last.err /\ last.evicted # {}
    /\ Size(cm) = cm.size

\* C2: no call of get, put or get_stats ends in an uncaught exception.
C2_NoRuntimeError == ~last.err

\* C3: every put of a new key into a full cache removes exactly one of the
\* entries that were live, counts exactly one eviction and leaves the new key
\* present.
C3_ExactlyOneEvicted ==
    PutNewWhenFull =>
        /\ Cardinality(DOMAIN last.pre.cache \ DOMAIN cm.cache) = 1
        /\ cm.stats.evictions = last.pre.stats.evictions + 1
        /\ last.key \in DOMAIN cm.cache

\* A put has just made a capacity eviction that removed an entry.
Evicted == last.op = "put" /\ last.evicted # {}

\* C4: under LRU the entry removed by a capacity eviction is the live entry
\* whose last touch (get hit, insertion or overwrite) is the oldest, and it is
\* the only entry removed.
C4_LRUEvictsOldestTouch ==
    (cm.policy = "LRU" /\ Evicted) =>
        /\ Range(last.ptouch) = DOMAIN last.pre.cache
        /\ last.evicted = {Head(last.ptouch)}
        /\ DOMAIN cm.cache = (DOMAIN last.pre.cache \ last.evicted) \cup {last.key}

\* C4 witness: capacity 2, a was put before b and hit by a get afterwards, and
\* the put of c has evicted b and kept a.
C4_Witness ==
    /\ cm.policy = "LRU" /\ cm.size = 2 /\ Evicted
    /\ last.key = "c" /\ last.evicted = {"b"}
    /\ last.pre.stats.hits = 1
    /\ last.pre.timestamps["a"] < last.pre.timestamps["b"]
    /\ DOMAIN cm.cache = {"a", "c"}

\* C5: under FIFO the entry removed by a capacity eviction is the live key
\* whose fresh insertion is the oldest, and a get hit or an overwrite of a live
\* key leaves the eviction queue as it was.
C5_FIFOEvictsOldestInserted ==
    /\ (cm.policy = "FIFO" /\ Evicted) =>
          /\ Range(last.pins) = DOMAIN last.pre.cache
          /\ last.evicted = {Head(last.pins)}
          /\ DOMAIN cm.cache = (DOMAIN last.pre.cache \ last.evicted) \cup {last.key}
    /\ (cm.policy = "FIFO" /\ last.op \in {"get", "put"}
          /\ last.key \in DOMAIN last.pre.cache /\ last.expired = {}) =>
          /\ cm.insertion_order = last.pre.insertion_order
          /\ hist.ins = last.pins

\* C5 witness: capacity 2, the oldest key a was overwritten later than b was
\* put and a get has hit, and the put of c has still evicted a.
C5_Witness ==
    /\ cm.policy = "FIFO" /\ cm.size = 2 /\ Evicted
    /\ last.key = "c" /\ last.evicted = {"a"}
    /\ last.pins = <<"a", "b">>
    /\ last.pre.timestamps["a"] > last.pre.timestamps["b"]
    /\ DOMAIN cm.cache = {"b", "c"}

\* C6: under LFU every capacity eviction (every _evict call made by put)
\* removes a live entry whose frequency is minimal among the live entries.
C6_LFUEvictsMinFrequency ==
    (cm.policy = "LFU" /\ last.op = "put"
        /\ cm.stats.evictions # last.pre.stats.evictions) =>
        \E k \in last.evicted :
            /\ k \in DOMAIN last.pre.cache
            /\ k \in DOMAIN last.pre.frequencies
            /\ \A j \in DOMAIN last.pre.cache :
                  j \in DOMAIN last.pre.frequencies
                  /\ last.pre.frequencies[k] <= last.pre.frequencies[j]

\* The age, at the call just made, of the entry of its key.
Age == last.t - last.pput[last.key].t

GetPresent == last.op = "get" /\ last.key \in DOMAIN last.pre.cache

\* C7: with ttl > 0 a get of a present key put more than ttl ago returns
\* absent, removes the key and counts one expiration and one miss; a get at an
\* age of at most ttl returns the value last put and leaves the entry's
\* timestamp alone; with ttl = 0 nothing is ever removed by expiration.
C7_TTLExpiry ==
    /\ GetPresent => last.key \in DOMAIN last.pput
    /\ (GetPresent /\ cm.ttl > 0 /\ Age > cm.ttl) =>
          /\ last.ret = None /\ ~last.err
          /\ last.key \notin DOMAIN cm.cache
          /\ cm.stats.expirations = last.pre.stats.expirations + 1
          /\ cm.stats.misses = last.pre.stats.misses + 1
          /\ cm.stats.hits = last.pre.stats.hits
    /\ (GetPresent /\ cm.ttl > 0 /\ Age <= cm.ttl) =>
          /\ last.ret = last.pput[last.key].value /\ ~last.err
          /\ last.key \in DOMAIN cm.cache
          /\ cm.timestamps[last.key] = last.pput[last.key].t
          /\ cm.stats.expirations = last.pre.stats.expirations
    /\ cm.ttl = 0 =>
          /\ cm.stats.expirations = 0 /\ hist.rem_expire = 0
          /\ last.expired = {}
          /\ GetPresent => last.ret = last.pput[last.key].value

\* C7 witness: a get has just found its key expired, after an earlier get hit.
C7_Witness ==
    /\ GetPresent /\ cm.ttl > 0 /\ Age > cm.ttl
    /\ last.pre.stats.hits > 0
    /\ last.expired = {last.key}

\* C8: a put whose key is already in the cache, live or expired, leaves the
\* number of entries and stats.evictions unchanged.
C8_UpdateNotEvict ==
    (last.op = "put" /\ last.key \in DOMAIN last.pre.cache) =>
        /\ Size(cm) = Size(last.pre)
        /\ cm.stats.evictions = last.pre.stats.evictions
        /\ last.evicted = {}

\* C8 witness: a put has purged its expired key from a full cache and put it
\* back.
C8_Witness ==
    /\ last.op = "put" /\ last.expired = {last.key} /\ last.fresh
    /\ Size(last.pre) = last.pre.size /\ last.pre.size > 1

\* C9: hits + misses is the number of get calls made; a get adds one to
\* exactly one of the two, a put changes neither.
C9_StatsAccounting ==
    /\ cm.stats.hits + cm.stats.misses = hist.gets
    /\ last.op = "get" =>
          \/ /\ cm.stats.hits = last.pre.stats.hits + 1
             /\ cm.stats.misses = last.pre.stats.misses
          \/ /\ cm.stats.hits = last.pre.stats.hits
             /\ cm.stats.misses = last.pre.stats.misses + 1
    /\ last.op = "put" =>
          /\ cm.stats.hits = last.pre.stats.hits
          /\ cm.stats.misses = last.pre.stats.misses

\* C9 witness: a get has just missed on an expired key, after a hit.
C9_Witness ==
    /\ last.op = "get" /\ last.expired # {}
    /\ cm.stats.hits > 0 /\ cm.stats.misses > 0

\* C10: evictions counts exactly the entries _evict removed from the cache and
\* expirations exactly those _remove_expired removed.
C10_RemovalAccounting ==
    /\ cm.stats.evictions = hist.rem_evict
    /\ cm.stats.expirations = hist.rem_expire

\* The hit_rate of the get_stats call just made is last.ret.hit_rate, in
\* hundredths of the unit the code reports (5000 is the reported 50.0).
StatsCalled == last.op = "get_stats"

Gets(s) == s.stats.hits + s.stats.misses

\* C11 (as claimed): the reported hit_rate is the ratio hits / (hits + misses),
\* a value from 0 to 1, and 0 when no get was made.  In hundredths the ratio
\* r satisfies r * gets = 100 * hits.
C11_HitRateIsRatio ==
    StatsCalled =>
        /\ last.ret.hit_rate <= 100
        /\ last.ret.hit_rate * Gets(cm) = 100 * cm.stats.hits

\* C11 (amended): the reported hit_rate is the percentage
\* 100 * hits / (hits + misses) rounded to two decimals (within half a
\* hundredth of the exact percentage, from 0 to 100), and 0 when no get was
\* made.
C11_HitRateIsPercent ==
    StatsCalled =>
        /\ 0 <= last.ret.hit_rate /\ last.ret.hit_rate <= 10000
        /\ Gets(cm) = 0 => last.ret.hit_rate = 0
        /\ Gets(cm) > 0 =>
              /\ 2 * (last.ret.hit_rate * Gets(cm) - 10000 * cm.stats.hits) <= Gets(cm)
              /\ 2 * (10000 * cm.stats.hits - last.ret.hit_rate * Gets(cm)) <= Gets(cm)

\* C11 witness: one hit and one miss are reported as 50.00.
C11_Witness ==
    /\ StatsCalled /\ cm.stats.hits = 1 /\ cm.stats.misses = 1
    /\ last.ret.hit_rate = 5000

\* The keys held in the LFU frequency buckets.
BucketKeys(s) == UNION {s.freq_groups[f] : f \in DOMAIN s.freq_groups}

\* C15: the keys of the policy's structures are exactly the keys of the cache:
\* under FIFO those of insertion_order; under LFU those of frequencies and of
\* the buckets, each key in the bucket of its own frequency.
C15_StructuresMatchCache ==
    /\ cm.policy = "FIFO" => Range(cm.insertion_order) = DOMAIN cm.cache
    /\ cm.policy = "LFU" =>
          /\ DOMAIN cm.frequencies = DOMAIN cm.cache
          /\ BucketKeys(cm) = DOMAIN cm.cache
          /\ \A k \in DOMAIN cm.cache :
                /\ cm.frequencies[k] \in DOMAIN cm.freq_groups
                /\ k \in cm.freq_groups[cm.frequencies[k]]

\* C16: no key is in more than one LFU frequency bucket, and no key occurs
\* more than once in the FIFO queue.
C16_NoDuplicateMembership ==
    /\ cm.policy = "LFU" =>
          \A k \in Keys :
              Cardinality({f \in DOMAIN cm.freq_groups : k \in cm.freq_groups[f]}) <= 1
    /\ cm.policy = "FIFO" =>
          \A i, j \in 1..Len(cm.insertion_order) :
              cm.insertion_order[i] = cm.insertion_order[j] => i = j

\* A put has just been made on a key that was present and expired.
PutOnExpired ==
    /\ last.op = "put" /\ last.key \in DOMAIN last.pre.cache
    /\ last.pre.ttl > 0
    /\ last.key \in DOMAIN last.pre.timestamps
    /\ last.t - last.pre.timestamps[last.key] > last.pre.ttl

\* C17: a put on a present, expired key counts one expiration and no
\* eviction and leaves the key live as a fresh insertion: new value and
\* timestamp, LFU frequency 1 in bucket 1 with min_freq 1, FIFO tail, LRU
\* most-recent end.
C17_PutOnExpiredIsFreshInsert ==
    PutOnExpired =>
        /\ ~last.err /\ last.fresh
        /\ cm.stats.expirations = last.pre.stats.expirations + 1
        /\ cm.stats.evictions = last.pre.stats.evictions
        /\ last.key \in DOMAIN cm.cache
        /\ cm.cache[last.key] = last.value
        /\ cm.timestamps[last.key] = last.t
        /\ cm.policy = "LFU" =>
              /\ cm.frequencies[last.key] = 1
              /\ cm.min_freq = 1
              /\ last.key \in cm.freq_groups[1]
        /\ cm.policy = "FIFO" =>
              /\ cm.insertion_order[Len(cm.insertion_order)] = last.key
              /\ Len(SelectSeq(cm.insertion_order, LAMBDA x : x = last.key)) = 1
        /\ cm.policy = "LRU" =>
              cm.cache_order[Len(cm.cache_order)] = last.key

\* C17 witness: under LFU the expired key had frequency 2 and the tracked
\* minimum was 2; under FIFO and LRU it was the oldest of two keys.
C17_Witness ==
    /\ PutOnExpired
    /\ \/ /\ cm.policy = "LFU" /\ last.pre.frequencies[last.key] = 2
          /\ last.pre.min_freq = 2
       \/ /\ cm.policy = "FIFO" /\ Len(last.pre.insertion_order) = 2
          /\ last.pre.insertion_order[1] = last.key
       \/ /\ cm.policy = "LRU" /\ Len(last.pre.cache_order) = 2
          /\ last.pre.cache_order[1] = last.key

\* C19: a get(k) made right after a put(k, v), the clock not having moved,
\* returns v and is counted as a hit.
C19_ReadYourWrites ==
    [][(last.op = "put" /\ last'.op = "get" /\ last'.key = last.key) =>
          /\ last'.ret = last.value
          /\ cm'.stats.hits = cm.stats.hits + 1]_vars

\* C20: the keys of timestamps are exactly the keys of the cache.
C20_TimestampsMatchCache == DOMAIN cm.timestamps = DOMAIN cm.cache

\* C20 witness: with a ttl set, a key has been removed by expiration, another
\* by a capacity eviction just now, and the cache is full again.
C20_Witness ==
    /\ cm.ttl > 0 /\ cm.stats.expirations > 0
    /\ Evicted /\ ~last.err /\ Size(cm) = cm.size

\* ---- construction: CacheManager(size, policy, ttl) ----------------------------
\* str.upper() on the policy tags a configuration may carry.
Upper(p) ==
    CASE p = "lru" -> "LRU"
      [] p = "fifo" -> "FIFO"
      [] p = "lfu" -> "LFU"
      [] p = "mru" -> "MRU"
      [] OTHER -> p

CtorSizes == {-1, 0, 1}
CtorPolicies == {"LRU", "FIFO", "LFU", "lru", "MRU"}

\* __init__ raises ValueError for a policy that is none of the three once
\* upper-cased; the size is stored as given, unchecked.  obj is the object the
\* call was building; err tells that the call raised and no object exists.
__init__(size, policy, ttl) ==
    [obj |-> NewCacheManager(size, Upper(policy), ttl),
     err |-> Upper(policy) \notin Policies]

\* The service starts by constructing cache_manager from its configuration
\* and serves calls only if the construction returned.
InitCtor ==
    /\ \E size \in CtorSizes, policy \in CtorPolicies, ttl \in {0, MaxTTL} :
          LET r == __init__(size, policy, ttl)
          IN  /\ cm = r.obj
              /\ last = [NoCall("init", r.obj) EXCEPT !.err = r.err, !.key = policy]
    /\ now = 0
    /\ hist = [ops |-> 0, gets |-> 0, rem_evict |-> 0, rem_expire |-> 0,
               touch |-> <<>>, ins |-> <<>>, lastput |-> Empty]
    /\ inflight = NoRequests

Constructed == ~(last.op = "init" /\ last.err)

CtorGet == Constructed /\ Get

CtorPut == Constructed /\ Put

CtorGetStats == Constructed /\ GetStats

CtorTick == Constructed /\ Tick

NextCtor == CtorGet \/ CtorPut \/ CtorGetStats \/ CtorTick

SpecCtor == InitCtor /\ [][NextCtor]_vars

\* C12: the construction fails whenever the capacity is <= 0 or the policy
\* is not LRU, FIFO or LFU (in any letter case), and no cache of non-positive
\* capacity ever receives a get or a put.
C12_ConstructionRejectsBadConfig ==
    /\ last.op = "init" =>
          ((cm.size <= 0 \/ Upper(last.key) \notin {"LRU", "FIFO", "LFU"}) => last.err)
    /\ last.op \in {"get", "put"} => cm.size >= 1

\* ---- the /query pipeline: cache service, score service, storage service ------
\* A request body: the question ("" when the key is missing or empty) and
\* whether it carries an original_answer.
Payloads == [question : Keys \cup {""}, original_answer : {"", "answer"}]

\* What the collaborators do during one request: the score service is reached
\* or not (connection error, timeout); the storage service is reached and
\* commits ("ok"), is not reached ("down") or fails on the database
\* ("error"); score_data is the result the score service computes.
Envs == [scorer : {"ok", "down"}, storage : {"ok", "down", "error"},
         score_data : Values]

\* storage-service POST /storage: 400 without a question, 500 when the
\* database fails, else 200.  0 stands for no response (not reached).
store_response(payload, env) ==
    IF env.storage = "down" THEN 0
    ELSE IF payload.question = "" THEN 400
    ELSE IF env.storage = "error" THEN 500
    ELSE 200

\* storage-service POST /hit
register_hit(payload, env) ==
    IF env.storage = "down" THEN 0
    ELSE IF payload.question = "" THEN 400
    ELSE IF env.storage = "error" THEN 500
    ELSE 200

\* Response.raise_for_status(): raises HTTPError for a 4xx or 5xx status.
raise_for_status_never(code) == FALSE

raise_for_status(code) == code >= 400

\* requests.post(...) followed by raise_for_status(): a RequestException is
\* raised when the service is not reached or answers 4xx/5xx.
RequestException(code) == code = 0 \/ raise_for_status(code)

\* score-service POST /score: 400 without question or original_answer; 503
\* when the result cannot be stored; else 200 with the result payload.
handle_scoring(payload, env) ==
    IF payload.question = "" \/ payload.original_answer = "" THEN
        [code |-> 400, data |-> None]
    ELSE IF RequestException(store_response(payload, env)) THEN
        [code |-> 503, data |-> None]
    ELSE [code |-> 200, data |-> env.score_data]

Response(code, status, data) == [code |-> code, status |-> status, data |-> data]

\* cache-service POST /query at clock t: the outcomes (state of the cache
\* left, response sent, what the cache calls removed).
handle_query(s, payload, env, t) ==
    LET question == payload.question
        quiet(st, resp) == [st |-> st, resp |-> resp, expired |-> {},
                            evicted |-> {}, gets |-> 0]
    IN
    IF question = "" THEN {quiet(s, Response(400, "error", None))}
    ELSE
      LET g == get(s, question, t)
          looked(st, resp) == [st |-> st, resp |-> resp, expired |-> g.expired,
                               evicted |-> {}, gets |-> 1]
      IN
      IF g.err THEN {looked(g.st, Response(500, "error", None))}
      ELSE IF g.ret # None THEN
          \* the /hit notification: a RequestException (storage not reached)
          \* is caught and logged, the status of an answer is not looked at
          IF register_hit(payload, env) = 0
          THEN {looked(g.st, Response(200, "hit", g.ret))}
          ELSE {looked(g.st, Response(200, "hit", g.ret))}
      ELSE IF env.scorer = "down" THEN
          {looked(g.st, Response(503, "error", None))}
      ELSE
        LET scored == handle_scoring(payload, env)
        IN  IF raise_for_status(scored.code) THEN
                {looked(g.st, Response(503, "error", None))}
            ELSE
                { [st |-> p.st,
                   resp |-> IF p.err THEN Response(500, "error", None)
                            ELSE Response(200, "miss", scored.data),
                   expired |-> g.expired \cup p.expired,
                   evicted |-> p.evicted, gets |-> 1]
                  : p \in put(g.st, question, scored.data, t) }

MaxQueries == 2

Query ==
    /\ hist.ops < MaxQueries
    /\ \E payload \in Payloads, env \in Envs :
       \E r \in handle_query(cm, payload, env, now) :
          /\ cm' = r.st
          /\ last' = [op |-> "query", key |-> payload.question, value |-> None,
                      ret |-> None, err |-> r.resp.code = 500,
                      evicted |-> r.evicted, expired |-> r.expired,
                      fresh |-> FALSE, pre |-> cm, t |-> now,
                      ptouch |-> <<>>, pins |-> <<>>, pput |-> Empty,
                      payload |-> payload, env |-> env, resp |-> r.resp]
          /\ hist' = [hist EXCEPT
                        !.ops = @ + 1,
                        !.gets = @ + r.gets,
                        !.rem_evict = @ + Cardinality(r.evicted),
                        !.rem_expire = @ + Cardinality(r.expired)]
    /\ UNCHANGED <<now, inflight>>

NextQuery == Query \/ Tick

SpecQuery == Init /\ [][NextQuery]_vars

\* A /query request with a question has just been served, its lookup missed
\* (the question was absent, or present and expired) and its call of the
\* score service failed: not reached, or answered with an error status.
ScorerFailedOnMiss ==
    /\ last.op = "query" /\ last.key # ""
    /\ \/ last.key \notin DOMAIN last.pre.cache
       \/ _is_expired(last.pre, last.key, last.t)
    /\ \/ last.env.scorer = "down"
       \/ handle_scoring(last.payload, last.env).code # 200

\* C13 (as claimed): when the score service fails on a miss the caller gets
\* 503, the question is not in the cache afterwards and the contents of the
\* cache are those of before the request.
C13_ScorerFailureLeavesCacheUnchanged ==
    ScorerFailedOnMiss =>
        /\ last.resp.code = 503
        /\ last.key \notin DOMAIN cm.cache
        /\ cm.cache = last.pre.cache

\* C13 (amended): when the score service fails on a miss the caller gets 503
\* and the question is not in the cache afterwards; every other entry is as
\* before, the only entry the request can remove being an expired entry of
\* the question itself, purged by the lookup.
C13_ScorerFailureNotCached ==
    ScorerFailedOnMiss =>
        /\ last.resp.code = 503
        /\ last.key \notin DOMAIN cm.cache
        /\ cm.cache = Del(last.pre.cache, last.key)
        /\ cm.stats.evictions = last.pre.stats.evictions

\* C13 witness: the question was cached and had expired, the score service
\* was reached and answered with an error status (it could not store the
\* result); the caller got 503 and the question is no longer cached.
C13_Witness ==
    /\ ScorerFailedOnMiss /\ last.env.scorer = "ok"
    /\ last.payload.original_answer # "" /\ last.env.storage # "ok"
    /\ last.key \in DOMAIN last.pre.cache
    /\ last.resp.code = 503 /\ last.key \notin DOMAIN cm.cache

\* C14: a failure of the storage service does not change the response of
\* /query: it is a response the same request gets, from the same cache at the
\* same clock, when storage succeeds.
C14_StorageFailureInvisible ==
    (last.op = "query" /\ last.env.storage # "ok") =>
        last.resp \in
            {r.resp : r \in handle_query(last.pre, last.payload,
                                         [last.env EXCEPT !.storage = "ok"], last.t)}

\* ---- concurrent /query requests on the event loop -----------------------------
\* handle_query is a coroutine (async def) whose only await is
\* "await request.json()": once resumed from it the coroutine runs cache_get,
\* the blocking requests.post calls and cache_put without giving the event
\* loop back, and the loop resumes another coroutine only when it runs none.
\* pc of a request: idle, await_json (arrived, suspended in the await),
\* in_get (cache_get begun), notify (hit: POST /hit), score (miss: POST
\* /score), in_put (cache_put begun), done.
MayResume_threads(i) == TRUE

MayResume(i) == inflight.loop = 0

Running(i) == inflight.pc[i] \in {"in_get", "notify", "score", "in_put"}

Arrive(i) ==
    /\ inflight.pc[i] = "idle"
    /\ \E question \in Keys :
          inflight' = [inflight EXCEPT !.pc[i] = "await_json",
                                       !.question[i] = question]
    /\ UNCHANGED <<cm, now, last, hist>>

Resume(i) ==
    /\ inflight.pc[i] = "await_json"
    /\ MayResume(i)
    /\ inflight' = [inflight EXCEPT !.pc[i] = "in_get", !.loop = i]
    /\ UNCHANGED <<cm, now, last, hist>>

CacheGet(i) ==
    /\ inflight.pc[i] = "in_get"
    /\ inflight.loop = i
    /\ LET g == get(cm, inflight.question[i], now)
       IN  /\ cm' = g.st
           /\ inflight' = [inflight EXCEPT
                             !.pc[i] = IF g.err THEN "done"
                                       ELSE IF g.ret # None THEN "notify"
                                       ELSE "score",
                             !.loop = IF g.err THEN 0 ELSE @]
    /\ UNCHANGED <<now, last, hist>>

NotifyHit(i) ==
    /\ inflight.pc[i] = "notify"
    /\ inflight.loop = i
    /\ inflight' = [inflight EXCEPT !.pc[i] = "done", !.loop = 0]
    /\ UNCHANGED <<cm, now, last, hist>>

CallScore(i) ==
    /\ inflight.pc[i] = "score"
    /\ inflight.loop = i
    /\ \/ inflight' = [inflight EXCEPT !.pc[i] = "done", !.loop = 0]
       \/ \E score_data \in Values :
             inflight' = [inflight EXCEPT !.pc[i] = "in_put",
                                          !.data[i] = score_data]
    /\ UNCHANGED <<cm, now, last, hist>>

CachePut(i) ==
    /\ inflight.pc[i] = "in_put"
    /\ inflight.loop = i
    /\ \E p \in put(cm, inflight.question[i], inflight.data[i], now) :
          cm' = p.st
    /\ inflight' = [inflight EXCEPT !.pc[i] = "done", !.loop = 0]
    /\ UNCHANGED <<now, last, hist>>

NextConc ==
    \E i \in Reqs :
        \/ Arrive(i)
        \/ Resume(i)
        \/ CacheGet(i)
        \/ NotifyHit(i)
        \/ CallScore(i)
        \/ CachePut(i)

SpecConc == Init /\ [][NextConc]_vars

\* C18: no two requests are at once between the resumption of their handler
\* and its end; in particular no cache_get or cache_put begins while another
\* request is inside a get or a put.
C18_CacheOpsMutuallyExclusive ==
    \A i, j \in Reqs : (i # j /\ Running(i)) => ~Running(j)

\* C18 witness: two requests are in flight, one inside cache_put and the
\* other suspended, waiting for the event loop.
C18_Witness ==
    \E i, j \in Reqs :
        /\ inflight.pc[i] = "in_put"
        /\ inflight.pc[j] = "await_json"

====
